---- MODULE Spec2Model ----
(***************************************************************************)
(* The signal system calls of kernel/src/syscall/signal.rs:                *)
(* rt_sigaction, rt_sigreturn, rt_sigprocmask, kill, tkill and             *)
(* sigaltstack, as a state machine over the kernel state they touch (the   *)
(* process's disposition table and alt-stack descriptor, each thread's     *)
(* signal mask and trap frame, the process table) and the user memory      *)
(* their pointer arguments name.                                           *)
(*                                                                         *)
(* Every call is one action, taken from user mode (last = NoCall); `last`  *)
(* is the call being returned from (arguments, result, the state before    *)
(* it) until SysRet resumes user mode, and `prev` summarises the call      *)
(* returned from last when that call changed kernel state.                 *)
(*                                                                         *)
(* Two further families run rt_sigaction and sigaltstack from several      *)
(* threads at once, one action per critical section: `running` holds each  *)
(* thread's position in its call and `lock` the holder of the process      *)
(* lock.                                                                   *)
(***************************************************************************)
EXTENDS Integers, Sequences, FiniteSets, TLC

VARIABLES
    family,        \* the syscall family this run exercises
    dispositions,  \* proc.dispositions: signal number -> SignalAction
    uact,          \* user memory holding SignalAction objects: address -> value
    sig_mask,      \* thread.sig_mask of every thread of the process
    uset,          \* user memory holding Sigset objects
    sigaltstack,   \* proc.sigaltstack: the alt-stack descriptor
    uss,           \* user memory holding SignalStack objects
    PROCESSES,     \* the global process table: pid -> weak process reference
    tf,            \* self.tf: the calling thread's trap frame
    ustack,        \* user memory holding SignalFrame objects
    running,       \* per thread, the call it is in when calls interleave
    lock,          \* the thread holding the process lock, 0 when it is free
    last,          \* the call being returned from, NoCall in user mode
    prev           \* summary of the state-changing call returned from last

vars == <<family, dispositions, uact, sig_mask, uset, sigaltstack, uss,
          PROCESSES, tf, ustack, running, lock, last, prev>>

----------------------------------------------------------------------------
(* Bounds of the model *)

\* user memory holds this many mapped cells per object type, at 1..NumCells
NumCells == 2
\* handler addresses a SignalAction may carry: 0 (default) .. MaxHandler
MaxHandler == 1
\* threads of the process, with ids 1..NumThreads
NumThreads == 2
\* process ids 1..NumProcs and process group ids 1..NumGroups
NumProcs == 3
NumGroups == 2

----------------------------------------------------------------------------
(* Signal identity, errors, results *)

NSIG == 64
SIGINT == 2
SIGKILL == 9
SIGSTOP == 19

EPERM == 1
ESRCH == 3
ENOMEM == 12
EFAULT == 14
EINVAL == 22

Ok(v) == [ok |-> TRUE, val |-> v]
Err(e) == [ok |-> FALSE, val |-> e]

\* <Signal as FromPrimitive>::from_usize: an Option, as a set of at most one
FromUsize(signum) == IF signum \in 1..NSIG THEN {signum} ELSE {}

----------------------------------------------------------------------------
(* User pointers *)

NULL == 0
Cells == 1..NumCells
\* an address no mapping covers
Unmapped == NumCells + 1
Ptrs == {NULL} \cup Cells \cup {Unmapped}

\* vm().check_write_ptr / check_read_ptr succeed on mapped addresses
CheckWritePtr(p) == p \in Cells
CheckReadPtr(p) == p \in Cells

----------------------------------------------------------------------------
(* rt_sigaction *)

ActionFlagInputs == {0, 4}
Actions == [handler : 0..MaxHandler, flags : ActionFlagInputs]
DefaultAction == [handler |-> 0, flags |-> 0]

SignumInputs == {0, SIGINT, SIGKILL, SIGSTOP, NSIG + 1}
\* the entries of the table the model keeps: those the inputs can name, and
\* the last one
TableSignals == {SIGINT, SIGKILL, SIGSTOP, NSIG}
SizeInputs == {8, 16}

\* line 24 without the SIGSTOP test
SigactionRejects_NoStop(signal, sigsetsize) ==
    signal = SIGKILL \/ sigsetsize # 8

\* line 24 without the sigsetsize test
SigactionRejects_NoSize(signal, sigsetsize) ==
    signal = SIGKILL \/ signal = SIGSTOP

\* line 24: the condition that rejects the call
SigactionRejects(signal, sigsetsize) ==
    signal = SIGKILL \/ signal = SIGSTOP \/ sigsetsize # 8

\* lines 28-31: copy the current disposition out
SigactionCopyOut(st, oldact, signum) ==
    IF oldact = NULL THEN st
    ELSE IF ~CheckWritePtr(oldact) THEN [st EXCEPT !.ret = Err(EFAULT)]
    ELSE [st EXCEPT !.mem[oldact] = st.disp[signum],
                    !.writes = @ \cup {oldact}]

\* lines 32-36: read the new action and store it
SigactionInstall(st, act, signum) ==
    IF act = NULL THEN st
    ELSE IF ~CheckReadPtr(act) THEN [st EXCEPT !.ret = Err(EFAULT)]
    ELSE [st EXCEPT !.disp[signum] = st.mem[act],
                    !.reads = @ \cup {act},
                    !.newval = {st.mem[act]}]

\* sys_rt_sigaction with the two steps swapped: the new action is stored
\* before the old one is copied out
SysRtSigaction_InstallFirst(disp, mem, signum, act, oldact, sigsetsize) ==
    LET st0 == [ret |-> Ok(0), disp |-> disp, mem |-> mem,
                reads |-> {}, writes |-> {}, newval |-> {}]
    IN  IF FromUsize(signum) = {} THEN [st0 EXCEPT !.ret = Err(EINVAL)]
        ELSE IF SigactionRejects(signum, sigsetsize)
             THEN [st0 EXCEPT !.ret = Err(EINVAL)]
        ELSE LET st1 == SigactionInstall(st0, act, signum)
             IN  IF ~st1.ret.ok THEN st1
                 ELSE SigactionCopyOut(st1, oldact, signum)

\* sys_rt_sigaction on table `disp` and user memory `mem`
SysRtSigaction(disp, mem, signum, act, oldact, sigsetsize) ==
    LET st0 == [ret |-> Ok(0), disp |-> disp, mem |-> mem,
                reads |-> {}, writes |-> {}, newval |-> {}]
    IN  IF FromUsize(signum) = {} THEN [st0 EXCEPT !.ret = Err(EINVAL)]
        ELSE IF SigactionRejects(signum, sigsetsize)
             THEN [st0 EXCEPT !.ret = Err(EINVAL)]
        ELSE LET st1 == SigactionCopyOut(st0, oldact, signum)
             IN  IF ~st1.ret.ok THEN st1
                 ELSE SigactionInstall(st1, act, signum)

----------------------------------------------------------------------------
(* rt_sigprocmask *)

\* the signals whose bits the modelled sets may carry
MaskSignals == {SIGINT, SIGKILL}
Sigsets == SUBSET MaskSignals
Threads == 1..NumThreads

BLOCK == 0
UNBLOCK == 1
SETMASK == 2
HowInputs == {BLOCK, UNBLOCK, SETMASK, 3}

\* Sigset::add_set and Sigset::remove_set
AddSet(mask, set) == mask \cup set
RemoveSet(mask, set) == mask \ set

\* lines 75-78: copy the calling thread's mask out
SigprocmaskCopyOut(st, oldset) ==
    IF oldset = NULL THEN st
    ELSE IF ~CheckWritePtr(oldset) THEN [st EXCEPT !.ret = Err(EFAULT)]
    ELSE [st EXCEPT !.mem[oldset] = st.mask, !.writes = @ \cup {oldset}]

\* lines 84-89 with BLOCK storing the set instead of adding it
SigprocmaskApply_BlockSets(st, how, set) ==
    IF how = BLOCK THEN [st EXCEPT !.mask = set]
    ELSE IF how = UNBLOCK THEN [st EXCEPT !.mask = RemoveSet(st.mask, set)]
    ELSE IF how = SETMASK THEN [st EXCEPT !.mask = set]
    ELSE [st EXCEPT !.ret = Err(EINVAL)]

\* lines 84-89 with the mask assigned before `how` is matched
SigprocmaskApply_Partial(st, how, set) ==
    IF how = BLOCK THEN [st EXCEPT !.mask = AddSet(st.mask, set)]
    ELSE IF how = UNBLOCK THEN [st EXCEPT !.mask = RemoveSet(st.mask, set)]
    ELSE IF how = SETMASK THEN [st EXCEPT !.mask = set]
    ELSE [st EXCEPT !.mask = set, !.ret = Err(EINVAL)]

\* lines 84-89: the match on `how`, on the set read from user memory
SigprocmaskApply(st, how, set) ==
    IF how = BLOCK THEN [st EXCEPT !.mask = AddSet(st.mask, set)]
    ELSE IF how = UNBLOCK THEN [st EXCEPT !.mask = RemoveSet(st.mask, set)]
    ELSE IF how = SETMASK THEN [st EXCEPT !.mask = set]
    ELSE [st EXCEPT !.ret = Err(EINVAL)]

\* lines 79-90: read the new set and apply it
SigprocmaskUpdate(st, how, set) ==
    IF set = NULL THEN st
    ELSE IF ~CheckReadPtr(set) THEN [st EXCEPT !.ret = Err(EFAULT)]
    ELSE SigprocmaskApply([st EXCEPT !.reads = @ \cup {set},
                                     !.setval = {st.mem[set]}],
                          how, st.mem[set])

\* sys_rt_sigprocmask on the calling thread's `mask` and user memory `mem`
SysRtSigprocmask(mask, mem, how, set, oldset, sigsetsize) ==
    LET st0 == [ret |-> Ok(0), mask |-> mask, mem |-> mem,
                reads |-> {}, writes |-> {}, setval |-> {}]
    IN  IF sigsetsize # 8 THEN [st0 EXCEPT !.ret = Err(EINVAL)]
        ELSE LET st1 == SigprocmaskCopyOut(st0, oldset)
             IN  IF ~st1.ret.ok THEN st1
                 ELSE SigprocmaskUpdate(st1, how, set)

----------------------------------------------------------------------------
(* kill and tkill *)

\* A 64-bit argument register read as isize: hi * 2^32 + lo with lo a signed
\* 32-bit value. These are the values near a multiple of 2^32, which is
\* where `as i32` matters. A usize argument is the same register read
\* unsigned, so that usize::MAX is Word(0, -1) and `as isize` and `as usize`
\* leave the register as it is.
Word(hi, lo) == [hi |-> hi, lo |-> lo]
MinusOne == Word(0, -1)
IsPositive(x) == x.hi > 0 \/ (x.hi = 0 /\ x.lo > 0)
IsZero(x) == x.hi = 0 /\ x.lo = 0
IsMinusOne(x) == x = MinusOne
\* -pid; the inputs leave out isize::MIN, whose negation overflows
Neg(x) == [hi |-> -x.hi, lo |-> -x.lo]
\* `as i32` keeps the low 32 bits
AsI32(x) == x.lo
\* the magnitude of a word, as the mathematical integer it is
Abs(x) == IF IsPositive(x) \/ IsZero(x) THEN x ELSE Neg(x)

Pids == 1..NumProcs
Pgids == 1..NumGroups
SI_USER == 0

Absent == [state |-> "absent", pgid |-> 0]
Stale == [state |-> "stale", pgid |-> 0]
Alive(g) == [state |-> "alive", pgid |-> g]

\* Weak::upgrade succeeds on an entry whose process still lives
Upgrades(table, p) == table[p].state = "alive"

RECURSIVE Ascending(_)
\* a set of process ids as the table (a map ordered by pid) iterates them
Ascending(S) ==
    IF S = {} THEN <<>>
    ELSE LET m == CHOOSE x \in S : \A y \in S : x <= y
         IN  <<m>> \o Ascending(S \ {m})

\* process(pid): the live process with that id, as an Option
Process(table, pid) ==
    IF pid.hi = 0 /\ pid.lo \in Pids /\ Upgrades(table, pid.lo)
    THEN {pid.lo} ELSE {}

\* process_group(pgid): the live processes of the group
ProcessGroup(table, pgid) ==
    Ascending({p \in Pids : Upgrades(table, p) /\ table[p].pgid = pgid})

\* lines 124-128: the entries of PROCESSES that upgrade
Broadcast(table) ==
    Ascending({p \in Pids : Upgrades(table, p)})

\* the threads of process p: its main thread p and a second one
ThreadsOf(p) == {p, p + NumProcs}

\* process_of(tid): the live process owning the thread, as an Option
ProcessOf(table, tid) ==
    {p \in Pids : Upgrades(table, p) /\ tid.hi = 0 /\ tid.lo \in ThreadsOf(p)}

\* line 155: `tid as isize`
AsIsize(tid) == tid

\* lines 98-103 and 156-161: the Siginfo both calls build
UserSiginfo(signum) == [signo |-> signum, errno |-> 0, code |-> SI_USER]

\* send_signal(process, tid, info), once per element of `targets`
SendEach(targets, tid, info) ==
    [i \in 1..Len(targets) |->
        [process |-> targets[i], tid |-> tid, info |-> info]]

\* lines 105-112: pid > 0
KillOne(table, pid, info) ==
    LET found == Process(table, pid)
    IN  IF found # {}
        THEN [ret |-> Ok(0),
              sends |-> SendEach(Ascending(found), MinusOne, info)]
        ELSE [ret |-> Err(ESRCH), sends |-> <<>>]

\* lines 113-119: pid == 0
KillOwnGroup(table, caller_pgid, info) ==
    [ret |-> Ok(0),
     sends |-> SendEach(ProcessGroup(table, caller_pgid), MinusOne, info)]

\* lines 120-130: pid == -1
KillAll(table, info) ==
    [ret |-> Ok(0), sends |-> SendEach(Broadcast(table), MinusOne, info)]

\* lines 131-141: pid < -1
KillGroup(table, pid, info) ==
    LET process_group == ProcessGroup(table, AsI32(Neg(pid)))
    IN  IF process_group = <<>>
        THEN [ret |-> Err(ESRCH), sends |-> <<>>]
        ELSE [ret |-> Ok(0),
              sends |-> SendEach(process_group, MinusOne, info)]

\* sys_kill, called by a process of group caller_pgid
SysKill(table, caller_pgid, pid, signum) ==
    IF FromUsize(signum) = {} THEN [ret |-> Err(EINVAL), sends |-> <<>>]
    ELSE LET info == UserSiginfo(signum)
         IN  IF IsPositive(pid) THEN KillOne(table, pid, info)
             ELSE IF IsZero(pid) THEN KillOwnGroup(table, caller_pgid, info)
             ELSE IF IsMinusOne(pid) THEN KillAll(table, info)
             ELSE KillGroup(table, pid, info)

\* sys_tkill passing kill's thread hint -1
SysTkill_Broadcast(table, tid, signum) ==
    IF FromUsize(signum) = {} THEN [ret |-> Err(EINVAL), sends |-> <<>>]
    ELSE LET found == ProcessOf(table, tid)
         IN  IF found # {}
             THEN [ret |-> Ok(0),
                   sends |-> SendEach(Ascending(found), MinusOne,
                                      UserSiginfo(signum))]
             ELSE [ret |-> Err(ESRCH), sends |-> <<>>]

\* sys_tkill
SysTkill(table, tid, signum) ==
    IF FromUsize(signum) = {} THEN [ret |-> Err(EINVAL), sends |-> <<>>]
    ELSE LET found == ProcessOf(table, tid)
         IN  IF found # {}
             THEN [ret |-> Ok(0),
                   sends |-> SendEach(Ascending(found), AsIsize(tid),
                                      UserSiginfo(signum))]
             ELSE [ret |-> Err(ESRCH), sends |-> <<>>]

PidInputs ==
    {Word(0, n) : n \in (0 - NumGroups - 1)..(NumProcs + 1)}
        \cup {Word(-1, 0 - g) : g \in Pgids} \cup {Word(1, p) : p \in Pids}
TidInputs ==
    {Word(0, n) : n \in 0..(2 * NumProcs + 1)} \cup {MinusOne, Word(1, 1)}
KillSignumInputs == {0, SIGINT, SIGKILL, NSIG + 1}

----------------------------------------------------------------------------
(* sigaltstack *)

\* A flags word is the set of the positions of its set bits, so that & is
\* intersection and ^ is symmetric difference.
BitAnd(a, b) == a \cap b
BitXor(a, b) == (a \ b) \cup (b \ a)

\* SignalStackFlags: ONSTACK = 1, DISABLE = 2, AUTODISARM = 0x80000000
ONSTACK == {0}
DISABLE == {1}
AUTODISARM == {31}
\* line 182: the literal 2
Bit2 == {1}
\* line 186: the literal 0x8000002 = 2^27 + 2
AllowedBits == {1, 27}

MINSIGSTKSZ == 2048

FlagInputs == {{}, ONSTACK, DISABLE, {2}, {27}, AUTODISARM}
StackSizeInputs == {2047, 2048}
SpInputs == {4096}
StackInputs == [sp : SpInputs, flags : FlagInputs, size : StackSizeInputs]
\* user memory before the program stores anything in it
ZeroStack == [sp |-> 0, flags |-> {}, size |-> 0]
\* SignalStack::default(), the descriptor of a new process
DefaultStack == [sp |-> 0, flags |-> DISABLE, size |-> 0]

\* lines 175-178: copy the process's descriptor out
SigaltstackCopyOut(st, old_ss) ==
    IF old_ss = NULL THEN st
    ELSE IF ~CheckWritePtr(old_ss) THEN [st EXCEPT !.ret = Err(EFAULT)]
    ELSE [st EXCEPT !.mem[old_ss] = st.stack, !.writes = @ \cup {old_ss}]

\* line 182 without the test of bit 2: every small descriptor is refused
TooSmall_AnyFlags(ss) == ss.size < MINSIGSTKSZ

\* line 182: the size check of a descriptor with bit 2 set
TooSmall(ss) == BitAnd(ss.flags, Bit2) # {} /\ ss.size < MINSIGSTKSZ

\* line 186 with bit 0 added to the mask
BadFlags_AllowOnStack(ss) ==
    BitXor(ss.flags, BitAnd(ss.flags, AllowedBits \cup ONSTACK)) # {}

\* line 186: flags with a bit outside the allowed ones
BadFlags(ss) == BitXor(ss.flags, BitAnd(ss.flags, AllowedBits)) # {}

\* lines 191-192 comparing the flags with ONSTACK instead of testing the bit
OnStack_Exact(stack) == stack.flags = ONSTACK

\* lines 191-192: the current descriptor is in use
OnStack(stack) == ONSTACK \subseteq stack.flags

\* lines 182-195 with the ONSTACK test moved before the validation
SigaltstackInstall_PermFirst(st, ss) ==
    IF OnStack(st.stack) THEN [st EXCEPT !.ret = Err(EPERM)]
    ELSE IF TooSmall(ss) THEN [st EXCEPT !.ret = Err(ENOMEM)]
    ELSE IF BadFlags(ss) THEN [st EXCEPT !.ret = Err(EINVAL)]
    ELSE [st EXCEPT !.stack = ss]

\* lines 182-195 with the store of line 195 moved before the validation
SigaltstackInstall_StoreFirst(st, ss) ==
    IF TooSmall(ss) THEN [st EXCEPT !.stack = ss, !.ret = Err(ENOMEM)]
    ELSE IF BadFlags(ss) THEN [st EXCEPT !.stack = ss, !.ret = Err(EINVAL)]
    ELSE IF OnStack(st.stack) THEN [st EXCEPT !.ret = Err(EPERM)]
    ELSE [st EXCEPT !.stack = ss]

\* lines 182-195: validate the descriptor read and store it
SigaltstackInstall(st, ss) ==
    IF TooSmall(ss) THEN [st EXCEPT !.ret = Err(ENOMEM)]
    ELSE IF BadFlags(ss) THEN [st EXCEPT !.ret = Err(EINVAL)]
    ELSE IF OnStack(st.stack) THEN [st EXCEPT !.ret = Err(EPERM)]
    ELSE [st EXCEPT !.stack = ss]

\* lines 179-196: read the new descriptor, then validate and store it
SigaltstackUpdate(st, ss) ==
    IF ss = NULL THEN st
    ELSE IF ~CheckReadPtr(ss) THEN [st EXCEPT !.ret = Err(EFAULT)]
    ELSE SigaltstackInstall([st EXCEPT !.reads = @ \cup {ss},
                                      !.ssval = {st.mem[ss]}],
                            st.mem[ss])

\* sys_sigaltstack with the two halves swapped: the new descriptor is stored
\* before the old one is copied out
SysSigaltstack_UpdateFirst(stack, mem, ss, old_ss) ==
    LET st0 == [ret |-> Ok(0), stack |-> stack, mem |-> mem,
                reads |-> {}, writes |-> {}, ssval |-> {}]
        st1 == SigaltstackUpdate(st0, ss)
    IN  IF ~st1.ret.ok THEN st1 ELSE SigaltstackCopyOut(st1, old_ss)

\* sys_sigaltstack on the process's descriptor `stack` and user memory `mem`
SysSigaltstack(stack, mem, ss, old_ss) ==
    LET st0 == [ret |-> Ok(0), stack |-> stack, mem |-> mem,
                reads |-> {}, writes |-> {}, ssval |-> {}]
        st1 == SigaltstackCopyOut(st0, old_ss)
    IN  IF ~st1.ret.ok THEN st1 ELSE SigaltstackUpdate(st1, ss)

----------------------------------------------------------------------------
(* rt_sigreturn *)

\* the error kinds of SysError, by numeric code
SysErrorCodes == {EPERM, ESRCH, ENOMEM, EFAULT, EINVAL}
\* <SysError as FromPrimitive>::from_isize: an Option, as a set
FromIsize(x) == IF x.hi = 0 /\ x.lo \in SysErrorCodes THEN {x.lo} ELSE {}

\* isize::MIN, the one word whose negation overflows
IsizeMin == Word(0 - 2147483647 - 1, 0)

\* the values of the result register the frames carry: 0, a success above
\* 2^32, -ESRCH, the negation of a number that is no error code, a word
\* whose low half alone is -ESRCH, and isize::MIN
RaxInputs ==
    {Word(0, 0), Word(1, 5), Word(0, 0 - ESRCH), Word(0, -4096),
     Word(-1, 0 - ESRCH), IsizeMin}

\* line 51: the SignalFrame is read at sp - 8
FrameAddr(sp) == sp - 8
\* the stack pointers that put the frame on a mapped cell or just above them
SpInputsOf == {c + 8 : c \in Cells \cup {Unmapped}}
TrapFrames == [sp : SpInputsOf, rax : RaxInputs]
SignalFrames == [tf : TrapFrames]
\* the registers of a thread that has not run yet, and untouched memory
ZeroTrapFrame == [sp |-> 0, rax |-> Word(0, 0)]
ZeroFrame == [tf |-> ZeroTrapFrame]

\* line 51: the frames the dereference can yield; the address is not
\* checked, so off the mapped cells the read yields anything or faults
FramesAt(mem, addr) ==
    IF addr \in Cells THEN {mem[addr]} ELSE SignalFrames
FaultsAt(addr) == addr \notin Cells

\* lines 53-58 reading the result register of the frame being replaced
DecodeResult_Stale(old, new) ==
    LET ret == AsIsize(old.rax)
    IN  IF IsPositive(ret) \/ IsZero(ret)
        THEN [panic |-> FALSE, ret |-> Ok(ret)]
        ELSE IF ret = IsizeMin \/ FromIsize(Neg(ret)) = {}
        THEN [panic |-> TRUE, ret |-> Ok(ret)]
        ELSE [panic |-> FALSE,
              ret |-> Err(CHOOSE e \in FromIsize(Neg(ret)) : TRUE)]

\* lines 53-58: the result of the call, from the restored trap frame `new`
\* (`old` is the one it replaced). -ret overflows for isize::MIN: a build
\* with overflow checks panics there, one without wraps to isize::MIN,
\* which is no error code, so that both end in a panic, as unwrap() does
\* on every other number that is no error code.
DecodeResult(old, new) ==
    LET ret == AsIsize(new.rax)
    IN  IF IsPositive(ret) \/ IsZero(ret)
        THEN [panic |-> FALSE, ret |-> Ok(ret)]
        ELSE IF ret = IsizeMin \/ FromIsize(Neg(ret)) = {}
        THEN [panic |-> TRUE, ret |-> Ok(ret)]
        ELSE [panic |-> FALSE,
              ret |-> Err(CHOOSE e \in FromIsize(Neg(ret)) : TRUE)]

\* sys_rt_sigreturn on trap frame `cur`, the frame read being `frame`
SysRtSigreturn(cur, frame) ==
    LET r == DecodeResult(cur, frame.tf)
    IN  [tf |-> frame.tf, panic |-> r.panic, ret |-> r.ret]

----------------------------------------------------------------------------
(* rt_sigaction and sigaltstack from several threads *)

\* A thread's arguments name objects on its own stack: `act` or `ss` at
\* cell 1 and `oldact` or `old_ss` at cell 2 of the memory `mem` that the
\* thread alone writes.
NewPtr == 1
OldPtr == 2
\* the actions the threads install, and the descriptors they pass
ThreadActions == {a \in Actions : a.flags = 0}
ThreadStacks == {d \in StackInputs : d.flags \in {{}, {2}}}

\* a thread in user mode
IdleThread == [pc |-> "idle"]
\* self.process() blocks until no other thread holds the process lock
LockFree == lock = 0

NoCall == [op |-> "none"]

\* what `prev` keeps of a call: of a successful rt_sigaction that installed
\* an action and reported the old one, the action and the entry it replaced;
\* of a successful BLOCK on an empty mask, the set it was given
Summary(call) ==
    IF call.op = "rt_sigaction" /\ call.ret.ok /\ call.newval # {}
       /\ call.oldact # NULL
    THEN [op |-> "rt_sigaction", signum |-> call.signum, act |-> call.act,
          oldact |-> call.oldact, new |-> call.pre_mem[call.act],
          old |-> call.pre_disp[call.signum]]
    ELSE IF call.op = "rt_sigprocmask" /\ call.ret.ok /\ call.setval # {}
            /\ call.how = BLOCK /\ call.pre_mask[call.tid] = {}
            /\ call.oldset # call.set
    THEN [op |-> "rt_sigprocmask", tid |-> call.tid, how |-> call.how,
          set |-> call.pre_mem[call.set]]
    ELSE NoCall

RtSigaction ==
    \E signum \in SignumInputs, act \in Ptrs, oldact \in Ptrs,
       sigsetsize \in SizeInputs :
        LET r == SysRtSigaction(dispositions, uact, signum, act, oldact,
                                sigsetsize)
        IN  /\ last = NoCall
            /\ dispositions' = r.disp
            /\ uact' = r.mem
            /\ last' = [op |-> "rt_sigaction", signum |-> signum,
                        act |-> act, oldact |-> oldact,
                        sigsetsize |-> sigsetsize, ret |-> r.ret,
                        reads |-> r.reads, writes |-> r.writes,
                        newval |-> r.newval,
                        pre_disp |-> dispositions, pre_mem |-> uact]
            /\ UNCHANGED <<tf, ustack, running, lock>>
            /\ UNCHANGED <<family, sig_mask, uset, sigaltstack, uss, PROCESSES,
                           prev>>

\* the user program stores a SignalAction object in its own memory
UserStoreAction ==
    \E p \in Cells, a \in Actions :
        /\ last = NoCall
        /\ uact[p] # a
        /\ uact' = [uact EXCEPT ![p] = a]
        /\ prev' = NoCall
        /\ UNCHANGED <<tf, ustack, running, lock>>
        /\ UNCHANGED <<family, dispositions, sig_mask, uset, sigaltstack, uss,
                       PROCESSES, last>>

RtSigprocmask ==
    \E tid \in Threads, how \in HowInputs, set \in Ptrs, oldset \in Ptrs,
       sigsetsize \in SizeInputs :
        LET r == SysRtSigprocmask(sig_mask[tid], uset, how, set, oldset,
                                  sigsetsize)
        IN  /\ last = NoCall
            /\ sig_mask' = [sig_mask EXCEPT ![tid] = r.mask]
            /\ uset' = r.mem
            /\ last' = [op |-> "rt_sigprocmask", tid |-> tid, how |-> how,
                        set |-> set, oldset |-> oldset,
                        sigsetsize |-> sigsetsize, ret |-> r.ret,
                        reads |-> r.reads, writes |-> r.writes,
                        setval |-> r.setval,
                        pre_mask |-> sig_mask, pre_mem |-> uset]
            /\ UNCHANGED <<tf, ustack, running, lock>>
            /\ UNCHANGED <<family, dispositions, uact, sigaltstack, uss,
                           PROCESSES, prev>>

\* the user program stores a Sigset object in its own memory
UserStoreSet ==
    \E p \in Cells, s \in Sigsets :
        /\ last = NoCall
        /\ uset[p] # s
        /\ uset' = [uset EXCEPT ![p] = s]
        /\ prev' = NoCall
        /\ UNCHANGED <<tf, ustack, running, lock>>
        /\ UNCHANGED <<family, dispositions, uact, sig_mask, sigaltstack, uss,
                       PROCESSES, last>>

Kill ==
    \E caller \in Pids, pid \in PidInputs, signum \in KillSignumInputs :
        LET r == SysKill(PROCESSES, PROCESSES[caller].pgid, pid, signum)
        IN  /\ last = NoCall
            /\ Upgrades(PROCESSES, caller)
            /\ last' = [op |-> "kill", caller |-> caller, pid |-> pid,
                        signum |-> signum, ret |-> r.ret, sends |-> r.sends]
            /\ UNCHANGED <<tf, ustack, running, lock>>
            /\ UNCHANGED <<family, dispositions, uact, sig_mask, uset,
                           sigaltstack, uss, PROCESSES, prev>>

Tkill ==
    \E caller \in Pids, tid \in TidInputs, signum \in KillSignumInputs :
        LET r == SysTkill(PROCESSES, tid, signum)
        IN  /\ last = NoCall
            /\ Upgrades(PROCESSES, caller)
            /\ last' = [op |-> "tkill", caller |-> caller, tid |-> tid,
                        signum |-> signum, ret |-> r.ret, sends |-> r.sends]
            /\ UNCHANGED <<tf, ustack, running, lock>>
            /\ UNCHANGED <<family, dispositions, uact, sig_mask, uset,
                           sigaltstack, uss, PROCESSES, prev>>

\* a process is created in a group and registered in the table
ProcSpawn ==
    \E p \in Pids, g \in Pgids :
        /\ last = NoCall
        /\ PROCESSES[p] = Absent
        /\ PROCESSES' = [PROCESSES EXCEPT ![p] = Alive(g)]
        /\ UNCHANGED <<tf, ustack, running, lock>>
        /\ UNCHANGED <<family, dispositions, uact, sig_mask, uset, sigaltstack,
                       uss, last, prev>>

\* a process is dropped; its table entry stays behind and no longer upgrades
ProcExit ==
    \E p \in Pids :
        /\ last = NoCall
        /\ Upgrades(PROCESSES, p)
        /\ \E q \in Pids \ {p} : Upgrades(PROCESSES, q)
        /\ PROCESSES' = [PROCESSES EXCEPT ![p] = Stale]
        /\ UNCHANGED <<tf, ustack, running, lock>>
        /\ UNCHANGED <<family, dispositions, uact, sig_mask, uset, sigaltstack,
                       uss, last, prev>>

\* a stale entry is removed from the table
ProcReap ==
    \E p \in Pids :
        /\ last = NoCall
        /\ PROCESSES[p] = Stale
        /\ PROCESSES' = [PROCESSES EXCEPT ![p] = Absent]
        /\ UNCHANGED <<tf, ustack, running, lock>>
        /\ UNCHANGED <<family, dispositions, uact, sig_mask, uset, sigaltstack,
                       uss, last, prev>>

Sigaltstack ==
    \E ss \in Ptrs, old_ss \in Ptrs :
        LET r == SysSigaltstack(sigaltstack, uss, ss, old_ss)
        IN  /\ last = NoCall
            /\ sigaltstack' = r.stack
            /\ uss' = r.mem
            /\ last' = [op |-> "sigaltstack", ss |-> ss, old_ss |-> old_ss,
                        ret |-> r.ret, reads |-> r.reads,
                        writes |-> r.writes, ssval |-> r.ssval,
                        pre_stack |-> sigaltstack, pre_mem |-> uss]
            /\ UNCHANGED <<tf, ustack, running, lock>>
            /\ UNCHANGED <<family, dispositions, uact, sig_mask, uset,
                           PROCESSES, prev>>

\* the user program stores a SignalStack object in its own memory
UserStoreStack ==
    \E p \in Cells, v \in StackInputs :
        /\ last = NoCall
        /\ uss[p] # v
        /\ uss' = [uss EXCEPT ![p] = v]
        /\ UNCHANGED <<tf, ustack, running, lock>>
        /\ UNCHANGED <<family, dispositions, uact, sig_mask, uset,
                       sigaltstack, PROCESSES, last, prev>>

\* a handler starts to run on the alt stack: the dispatch path sets ONSTACK
EnterAltStack ==
    /\ last = NoCall
    /\ ~(ONSTACK \subseteq sigaltstack.flags)
    /\ sigaltstack' = [sigaltstack EXCEPT !.flags = @ \cup ONSTACK]
    /\ UNCHANGED <<tf, ustack, running, lock>>
    /\ UNCHANGED <<family, dispositions, uact, sig_mask, uset, uss,
                   PROCESSES, last, prev>>

\* the handler returns: the alt stack is no longer in use
LeaveAltStack ==
    /\ last = NoCall
    /\ ONSTACK \subseteq sigaltstack.flags
    /\ sigaltstack' = [sigaltstack EXCEPT !.flags = @ \ ONSTACK]
    /\ UNCHANGED <<tf, ustack, running, lock>>
    /\ UNCHANGED <<family, dispositions, uact, sig_mask, uset, uss,
                   PROCESSES, last, prev>>

\* rt_sigreturn, on the frame below the stack pointer
RtSigreturn ==
    \E frame \in FramesAt(ustack, FrameAddr(tf.sp)) :
        LET r == SysRtSigreturn(tf, frame)
        IN  /\ last = NoCall
            /\ tf' = r.tf
            /\ last' = [op |-> "rt_sigreturn", ret |-> r.ret,
                        panic |-> r.panic, fault |-> FALSE,
                        addr |-> FrameAddr(tf.sp), frame |-> frame,
                        pre_tf |-> tf, pre_mem |-> ustack]
            /\ UNCHANGED <<family, dispositions, uact, sig_mask, uset,
                           sigaltstack, uss, PROCESSES, ustack, prev,
                       running, lock>>

\* rt_sigreturn with no mapping at sp - 8: the read at line 51 faults
RtSigreturnFault ==
    /\ last = NoCall
    /\ FaultsAt(FrameAddr(tf.sp))
    /\ last' = [op |-> "rt_sigreturn", ret |-> Ok(Word(0, 0)),
                panic |-> FALSE, fault |-> TRUE,
                addr |-> FrameAddr(tf.sp), frame |-> ZeroFrame,
                pre_tf |-> tf, pre_mem |-> ustack]
    /\ UNCHANGED <<family, dispositions, uact, sig_mask, uset, sigaltstack,
                   uss, PROCESSES, tf, ustack, prev,
                       running, lock>>

\* signal delivery, or the handler itself, stores a SignalFrame on the stack
UserStoreFrame ==
    \E p \in Cells, v \in SignalFrames :
        /\ last = NoCall
        /\ ustack[p] # v
        /\ ustack' = [ustack EXCEPT ![p] = v]
        /\ UNCHANGED <<family, dispositions, uact, sig_mask, uset,
                       sigaltstack, uss, PROCESSES, tf, last, prev,
                       running, lock>>

\* the thread runs in user mode and moves its stack pointer
UserSetSp ==
    \E sp \in SpInputsOf :
        /\ last = NoCall
        /\ tf.sp # sp
        /\ tf' = [tf EXCEPT !.sp = sp]
        /\ UNCHANGED <<family, dispositions, uact, sig_mask, uset,
                       sigaltstack, uss, PROCESSES, ustack, last, prev,
                       running, lock>>

\* rt_sigaction by thread t, lines 18-26: the arguments pass the checks of
\* signum and sigsetsize, and the thread goes on to take the process lock
ThreadSigaction(t) ==
    \E A \in ThreadActions :
        /\ running[t] = IdleThread
        /\ FromUsize(SIGINT) # {}
        /\ ~SigactionRejects(SIGINT, 8)
        /\ running' = [running EXCEPT ![t] =
               [pc |-> "lock", op |-> "rt_sigaction",
                mem |-> [p \in Cells |-> IF p = NewPtr THEN A
                                         ELSE DefaultAction],
                ret |-> Ok(0), replaced |-> {}]]
        /\ UNCHANGED <<family, dispositions, uact, sig_mask, uset,
                       sigaltstack, uss, PROCESSES, tf, ustack, lock, last,
                       prev>>

\* line 27: `let mut proc = self.process()` takes the process lock, held
\* until proc goes out of scope
ThreadSigactionLock(t) ==
    /\ running[t].pc = "lock"
    /\ LockFree
    /\ lock' = t
    /\ running' = [running EXCEPT ![t].pc = "copyout"]
    /\ UNCHANGED <<family, dispositions, uact, sig_mask, uset, sigaltstack,
                   uss, PROCESSES, tf, ustack, last, prev>>

\* lines 28-31, with the lock given up after the copy
ThreadSigactionCopyOut_Unlock(t) ==
    /\ running[t].pc = "copyout"
    /\ LET st == SigactionCopyOut(
                     [ret |-> Ok(0), disp |-> dispositions,
                      mem |-> running[t].mem, reads |-> {}, writes |-> {},
                      newval |-> {}],
                     OldPtr, SIGINT)
       IN  /\ running' = [running EXCEPT ![t].mem = st.mem,
                                         ![t].ret = st.ret,
                                         ![t].pc = IF st.ret.ok
                                                   THEN "install"
                                                   ELSE "done"]
           /\ lock' = 0
    /\ UNCHANGED <<family, dispositions, uact, sig_mask, uset, sigaltstack,
                   uss, PROCESSES, tf, ustack, last, prev>>

\* lines 28-31, under the lock: the entry is copied out to oldact
ThreadSigactionCopyOut(t) ==
    /\ running[t].pc = "copyout"
    /\ LET st == SigactionCopyOut(
                     [ret |-> Ok(0), disp |-> dispositions,
                      mem |-> running[t].mem, reads |-> {}, writes |-> {},
                      newval |-> {}],
                     OldPtr, SIGINT)
       IN  /\ running' = [running EXCEPT ![t].mem = st.mem,
                                         ![t].ret = st.ret,
                                         ![t].pc = IF st.ret.ok
                                                   THEN "install"
                                                   ELSE "done"]
           /\ lock' = IF st.ret.ok THEN lock ELSE 0
    /\ UNCHANGED <<family, dispositions, uact, sig_mask, uset, sigaltstack,
                   uss, PROCESSES, tf, ustack, last, prev>>

\* lines 32-38: the new action is read and stored, and the lock released
\* as proc goes out of scope
ThreadSigactionInstall(t) ==
    /\ running[t].pc = "install"
    /\ LET st == SigactionInstall(
                     [ret |-> Ok(0), disp |-> dispositions,
                      mem |-> running[t].mem, reads |-> {}, writes |-> {},
                      newval |-> {}],
                     NewPtr, SIGINT)
       IN  /\ dispositions' = st.disp
           /\ running' = [running EXCEPT ![t].ret = st.ret,
                                         ![t].replaced = {dispositions[SIGINT]},
                                         ![t].pc = "done"]
    /\ lock' = 0
    /\ UNCHANGED <<family, uact, sig_mask, uset, sigaltstack, uss,
                   PROCESSES, tf, ustack, last, prev>>

\* sigaltstack by thread t, lines 175-178: the descriptor is copied out
\* under the lock that `self.process()` holds for that statement alone
ThreadSigaltstack(t) ==
    \E d \in ThreadStacks :
        /\ running[t] = IdleThread
        /\ LockFree
        /\ LET mem == [p \in Cells |-> IF p = NewPtr THEN d ELSE ZeroStack]
               st == SigaltstackCopyOut(
                         [ret |-> Ok(0), stack |-> sigaltstack, mem |-> mem,
                          reads |-> {}, writes |-> {}, ssval |-> {}],
                         OldPtr)
           IN  running' = [running EXCEPT ![t] =
                   [pc |-> IF st.ret.ok THEN "update" ELSE "done",
                    op |-> "sigaltstack", mem |-> st.mem, ret |-> st.ret,
                    replaced |-> {}]]
        /\ UNCHANGED <<family, dispositions, uact, sig_mask, uset,
                       sigaltstack, uss, PROCESSES, tf, ustack, lock, last,
                       prev>>

\* lines 179-196: the new descriptor is read from the thread's own memory
\* and validated, then tested against the current one and stored under the
\* lock that line 190 takes
ThreadSigaltstackUpdate(t) ==
    /\ running[t].pc = "update"
    /\ LockFree
    /\ LET st == SigaltstackUpdate(
                     [ret |-> Ok(0), stack |-> sigaltstack,
                      mem |-> running[t].mem, reads |-> {}, writes |-> {},
                      ssval |-> {}],
                     NewPtr)
       IN  /\ sigaltstack' = st.stack
           /\ running' = [running EXCEPT
                  ![t].ret = st.ret,
                  ![t].replaced = IF st.ret.ok THEN {sigaltstack} ELSE {},
                  ![t].pc = "done"]
    /\ UNCHANGED <<family, dispositions, uact, sig_mask, uset, uss,
                   PROCESSES, tf, ustack, lock, last, prev>>

\* the thread's call returns to user mode
ThreadRet(t) ==
    /\ running[t].pc = "done"
    /\ running' = [running EXCEPT ![t] = IdleThread]
    /\ UNCHANGED <<family, dispositions, uact, sig_mask, uset, sigaltstack,
                   uss, PROCESSES, tf, ustack, lock, last, prev>>

\* the kernel has stopped: a panic, or a fault on a kernel-mode access
Halted == last # NoCall /\ last.op = "rt_sigreturn"
              /\ (last.panic \/ last.fault)

\* the call returns to user mode
SysRet ==
    /\ last # NoCall
    /\ ~Halted
    /\ prev' = Summary(last)
    /\ last' = NoCall
    /\ UNCHANGED <<tf, ustack, running, lock>>
    /\ UNCHANGED <<family, dispositions, uact, sig_mask, uset, sigaltstack, uss,
                   PROCESSES>>

NextAction == RtSigaction \/ UserStoreAction \/ SysRet

NextMask == RtSigprocmask \/ UserStoreSet \/ SysRet

NextAlt ==
    Sigaltstack \/ UserStoreStack \/ EnterAltStack \/ LeaveAltStack \/ SysRet

NextReturn ==
    RtSigreturn \/ RtSigreturnFault \/ UserStoreFrame \/ UserSetSp \/ SysRet

NextActionThreads ==
    \E t \in Threads :
        \/ ThreadSigaction(t)
        \/ ThreadSigactionLock(t)
        \/ ThreadSigactionCopyOut(t)
        \/ ThreadSigactionInstall(t)
        \/ ThreadRet(t)

NextAltThreads ==
    \E t \in Threads :
        \/ ThreadSigaltstack(t)
        \/ ThreadSigaltstackUpdate(t)
        \/ ThreadRet(t)

NextKill == Kill \/ Tkill \/ ProcSpawn \/ ProcExit \/ ProcReap \/ SysRet

----------------------------------------------------------------------------
(* Specifications *)

Families ==
    {"sigaction", "sigprocmask", "kill", "sigaltstack", "sigreturn",
     "sigaction threads", "sigaltstack threads"}

Init ==
    /\ family \in Families
    /\ dispositions = [s \in TableSignals |-> DefaultAction]
    /\ uact = [p \in Cells |-> DefaultAction]
    /\ sig_mask = [t \in 1..NumThreads |-> {}]
    /\ uset = [p \in Cells |-> {}]
    /\ sigaltstack = DefaultStack
    /\ uss = [p \in Cells |-> ZeroStack]
    /\ PROCESSES = [p \in Pids |-> IF p = 1 THEN Alive(1) ELSE Absent]
    /\ tf = ZeroTrapFrame
    /\ ustack = [p \in Cells |-> ZeroFrame]
    /\ running = [t \in Threads |-> IdleThread]
    /\ lock = 0
    /\ last = NoCall
    /\ prev = NoCall

Next ==
    \/ family = "sigaction" /\ NextAction
    \/ family = "sigprocmask" /\ NextMask
    \/ family = "kill" /\ NextKill
    \/ family = "sigaltstack" /\ NextAlt
    \/ family = "sigreturn" /\ NextReturn
    \/ family = "sigaction threads" /\ NextActionThreads
    \/ family = "sigaltstack threads" /\ NextAltThreads

Spec == Init /\ [][Next]_vars

InitSigset == Init /\ family \in {"sigaction", "sigprocmask"}
NextSigset ==
    \/ family = "sigaction" /\ NextAction
    \/ family = "sigprocmask" /\ NextMask
SpecSigset == InitSigset /\ [][NextSigset]_vars

InitAction == Init /\ family = "sigaction"
SpecAction == InitAction /\ [][NextAction]_vars

InitMask == Init /\ family = "sigprocmask"
SpecMask == InitMask /\ [][NextMask]_vars

InitAlt == Init /\ family = "sigaltstack"
SpecAlt == InitAlt /\ [][NextAlt]_vars

\* the three calls that read and replace signal state
InitConfig == Init /\ family \in {"sigaction", "sigprocmask", "sigaltstack"}
NextConfig ==
    \/ family = "sigaction" /\ NextAction
    \/ family = "sigprocmask" /\ NextMask
    \/ family = "sigaltstack" /\ NextAlt
SpecConfig == InitConfig /\ [][NextConfig]_vars

InitReturn == Init /\ family = "sigreturn"
SpecReturn == InitReturn /\ [][NextReturn]_vars

\* sigaltstack calls alone: no handler is dispatched on the alt stack
NextAltCalls == Sigaltstack \/ UserStoreStack \/ SysRet
SpecAltCalls == InitAlt /\ [][NextAltCalls]_vars

InitActionThreads == Init /\ family = "sigaction threads"
SpecActionThreads == InitActionThreads /\ [][NextActionThreads]_vars

InitAltThreads == Init /\ family = "sigaltstack threads"
SpecAltThreads == InitAltThreads /\ [][NextAltThreads]_vars

InitKill == Init /\ family = "kill"
SpecKill == InitKill /\ [][NextKill]_vars

----------------------------------------------------------------------------
(* rt_sigaction: claims *)

\* the signals rt_sigaction lets a process change
Catchable == (1..NSIG) \ {SIGKILL, SIGSTOP}

\* `last` is rt_sigaction(signum, A, &old1) and `prev` its predecessor's
\* summary: the pair is a set followed at once by the restore of what the set
\* reported, through distinct objects
IsRestore ==
    /\ last.op = "rt_sigaction"
    /\ prev.op = "rt_sigaction"
    /\ prev.act \in Cells /\ prev.oldact \in Cells
    /\ prev.act # prev.oldact
    /\ last.signum = prev.signum
    /\ last.sigsetsize = 8
    /\ last.act = prev.oldact
    /\ last.oldact \in Cells /\ last.oldact # last.act

\* C1: for a valid signum other than SIGKILL and SIGSTOP, sigsetsize 8 and
\* valid distinct user objects, rt_sigaction(signum, A, &old1) returns 0, and
\* followed by rt_sigaction(signum, old1, &old2) that call returns 0 too,
\* old2 equals A, and dispositions[signum] is back at the value it held
\* before the first call.
C1_SetThenRestore ==
    /\ ( /\ last.op = "rt_sigaction"
         /\ last.signum \in Catchable
         /\ last.sigsetsize = 8
         /\ last.act \in Cells /\ last.oldact \in Cells )
       => last.ret = Ok(0)
    /\ IsRestore
       => /\ last.ret = Ok(0)
          /\ uact[last.oldact] = prev.new
          /\ dispositions[last.signum] = prev.old

C1_Witness ==
    /\ IsRestore
    /\ prev.new # prev.old
    /\ last.pre_disp[last.signum] = prev.new
    /\ dispositions[last.signum] = prev.old

\* C2: the entries of SIGKILL and SIGSTOP keep their initial value in every
\* state, and every rt_sigaction call naming one of them returns EINVAL and
\* leaves the whole table as it was.
C2_KillStopImmutable ==
    /\ dispositions[SIGKILL] = DefaultAction
    /\ dispositions[SIGSTOP] = DefaultAction
    /\ ( last.op = "rt_sigaction" /\ last.signum \in {SIGKILL, SIGSTOP} )
       => /\ last.ret = Err(EINVAL)
          /\ dispositions = last.pre_disp

C2_Witness ==
    /\ last.op = "rt_sigaction"
    /\ last.signum = SIGSTOP
    /\ last.sigsetsize = 8
    /\ last.act \in Cells
    /\ last.oldact \in Cells
    /\ last.pre_mem[last.act] # DefaultAction

\* C3: with sigsetsize other than 8, rt_sigaction and rt_sigprocmask return
\* EINVAL whatever the other arguments are, write no output location, read
\* no input location, and leave the disposition table, every signal mask
\* and the user memory as they were.
C3_BadSigsetsize ==
    /\ ( last.op = "rt_sigaction" /\ last.sigsetsize # 8 )
       => /\ last.ret = Err(EINVAL)
          /\ last.writes = {} /\ last.reads = {}
          /\ uact = last.pre_mem
          /\ dispositions = last.pre_disp
    /\ ( last.op = "rt_sigprocmask" /\ last.sigsetsize # 8 )
       => /\ last.ret = Err(EINVAL)
          /\ last.writes = {} /\ last.reads = {}
          /\ uset = last.pre_mem
          /\ sig_mask = last.pre_mask

\* a call that sigsetsize alone stops: with 8 it would have installed a new
\* action and reported the old one
C3_Witness ==
    /\ last.op = "rt_sigaction"
    /\ last.sigsetsize = 16
    /\ last.signum = SIGINT
    /\ last.act \in Cells /\ last.oldact \in Cells
    /\ last.pre_mem[last.act] # last.pre_disp[SIGINT]
    /\ last.pre_mem[last.oldact] # last.pre_disp[SIGINT]

----------------------------------------------------------------------------
(* rt_sigprocmask: claims *)

\* the mask the three operations are to leave, from mask M and set S
Masked(how, M, S) ==
    IF how = BLOCK THEN M \cup S
    ELSE IF how = UNBLOCK THEN {x \in M : x \notin S}
    ELSE S

\* a call with sigsetsize 8, a readable set and one of the three operations
IsMaskUpdate ==
    /\ last.op = "rt_sigprocmask"
    /\ last.sigsetsize = 8
    /\ last.set \in Cells
    /\ last.how \in {BLOCK, UNBLOCK, SETMASK}

\* oldset is null, or a writable location other than the one `set` names
OldsetApart ==
    last.oldset = NULL \/ (last.oldset \in Cells /\ last.oldset # last.set)

\* C4 as stated: every call with sigsetsize 8, a readable set and a known
\* `how` returns 0 and leaves the caller's mask at M | S, M & ~S or S.
C4_AsStated ==
    IsMaskUpdate
    => /\ last.ret = Ok(0)
       /\ sig_mask[last.tid] =
              Masked(last.how, last.pre_mask[last.tid], last.pre_mem[last.set])

\* C4, amended: a call with sigsetsize 8, a readable set, a known `how`, and
\* an oldset that is null or a writable location other than set, returns 0,
\* leaves the caller's mask at M | S (BLOCK), M & ~S (UNBLOCK) or S
\* (SETMASK), SIGKILL's bit included, and no other thread's mask changed; so
\* BLOCK S1 from the empty mask followed by BLOCK S2 leaves S1 | S2.
C4_MaskUpdate ==
    /\ ( IsMaskUpdate /\ OldsetApart )
       => /\ last.ret = Ok(0)
          /\ sig_mask[last.tid] =
                 Masked(last.how, last.pre_mask[last.tid],
                        last.pre_mem[last.set])
          /\ \A t \in Threads \ {last.tid} : sig_mask[t] = last.pre_mask[t]
    /\ ( /\ IsMaskUpdate /\ OldsetApart
         /\ last.how = BLOCK
         /\ prev.op = "rt_sigprocmask" /\ prev.tid = last.tid )
       => sig_mask[last.tid] = prev.set \cup last.pre_mem[last.set]

\* the second BLOCK of two, each adding a signal, the second one SIGKILL
C4_Witness ==
    /\ IsMaskUpdate /\ OldsetApart
    /\ last.how = BLOCK
    /\ prev.op = "rt_sigprocmask" /\ prev.tid = last.tid
    /\ prev.set = {SIGINT}
    /\ last.pre_mem[last.set] = {SIGKILL}
    /\ sig_mask[last.tid] = {SIGINT, SIGKILL}

\* a call with sigsetsize 8, a readable set and an unknown `how`
IsBadHow ==
    /\ last.op = "rt_sigprocmask"
    /\ last.sigsetsize = 8
    /\ last.set \in Cells
    /\ last.how \notin {BLOCK, UNBLOCK, SETMASK}

\* C5 as stated: every call with sigsetsize 8, a readable set and an
\* unknown `how` returns EINVAL and leaves the caller's mask as it was.
C5_AsStated ==
    IsBadHow
    => /\ last.ret = Err(EINVAL)
       /\ sig_mask[last.tid] = last.pre_mask[last.tid]

\* C5, amended: a call with sigsetsize 8, a readable set and an unknown
\* `how` leaves every thread's mask as it was, and returns EINVAL when
\* oldset is null or writable.
C5_BadHow ==
    IsBadHow
    => /\ sig_mask = last.pre_mask
       /\ ~last.ret.ok
       /\ (last.oldset = NULL \/ last.oldset \in Cells)
          => last.ret = Err(EINVAL)

\* an unknown `how` with a set that any of the three operations would have
\* changed the mask with
C5_Witness ==
    /\ IsBadHow
    /\ last.oldset \in Cells
    /\ last.ret = Err(EINVAL)
    /\ last.pre_mask[last.tid] = {SIGINT}
    /\ last.pre_mem[last.set] = {SIGKILL}

----------------------------------------------------------------------------
(* kill and tkill: claims *)

\* the processes a call signalled, in the order of the calls
Signalled == {last.sends[i].process : i \in 1..Len(last.sends)}

LivePids == {p \in Pids : PROCESSES[p].state = "alive"}

\* the processes kill(pid, signum) is to signal
KillScope ==
    IF IsPositive(last.pid)
    THEN {p \in LivePids : Word(0, p) = last.pid}
    ELSE IF IsZero(last.pid)
    THEN {p \in LivePids : PROCESSES[p].pgid = PROCESSES[last.caller].pgid}
    ELSE IF IsMinusOne(last.pid) THEN LivePids
    ELSE {p \in LivePids : Word(0, PROCESSES[p].pgid) = Abs(last.pid)}

\* C6: for a valid signum, kill(pid, signum) calls send_signal exactly once
\* on each process in scope (process pid; the caller's group; every live
\* entry of the table; group abs(pid)), with thread hint -1 and
\* Siginfo{signum, 0, SI_USER}, and on no other process.
C6_KillTargets ==
    ( last.op = "kill" /\ last.signum \in 1..NSIG )
    => /\ Signalled = KillScope
       /\ Len(last.sends) = Cardinality(KillScope)
       /\ \A i \in 1..Len(last.sends) :
            /\ last.sends[i].tid = MinusOne
            /\ last.sends[i].info =
                   [signo |-> last.signum, errno |-> 0, code |-> SI_USER]

\* C7: kill(pid, signum) returns EINVAL and signals nothing for an unknown
\* signum; otherwise ESRCH with nothing signalled iff pid > 0 names no live
\* process or pid < -1 names an empty group abs(pid); otherwise 0 with the
\* whole scope signalled.
C7_KillResult ==
    last.op = "kill"
    => IF last.signum \notin 1..NSIG
       THEN last.ret = Err(EINVAL) /\ last.sends = <<>>
       ELSE IF /\ KillScope = {}
               /\ ~IsZero(last.pid) /\ ~IsMinusOne(last.pid)
       THEN last.ret = Err(ESRCH) /\ last.sends = <<>>
       ELSE last.ret = Ok(0) /\ Signalled = KillScope

\* C8: tkill(tid, signum) returns EINVAL and signals nothing for an unknown
\* signum; with a valid one it returns ESRCH and signals nothing when no
\* live process owns tid, and otherwise calls send_signal once, on the
\* owner, with thread hint tid and Siginfo{signum, 0, SI_USER}, and
\* returns 0.
C8_Tkill ==
    last.op = "tkill"
    => LET owners == {p \in LivePids : \E t \in ThreadsOf(p) :
                                            last.tid = Word(0, t)}
       IN  IF last.signum \notin 1..NSIG
           THEN last.ret = Err(EINVAL) /\ last.sends = <<>>
           ELSE IF owners = {}
           THEN last.ret = Err(ESRCH) /\ last.sends = <<>>
           ELSE /\ last.ret = Ok(0)
                /\ Len(last.sends) = 1
                /\ last.sends[1].process \in owners
                /\ last.sends[1].tid = last.tid
                /\ last.sends[1].tid # MinusOne
                /\ last.sends[1].info =
                       [signo |-> last.signum, errno |-> 0, code |-> SI_USER]

\* a signal for the second thread of a process, another process being alive
C8_Witness ==
    /\ last.op = "tkill"
    /\ last.ret = Ok(0)
    /\ Cardinality(LivePids) > 1
    /\ last.tid.lo \notin Pids
    /\ last.sends[1].process = last.tid.lo - NumProcs

----------------------------------------------------------------------------
(* sigaltstack: claims *)

\* a call that names a new descriptor while the current one has ONSTACK set
IsSetOnStack ==
    /\ last.op = "sigaltstack"
    /\ 0 \in last.pre_stack.flags
    /\ last.ss # NULL

\* C9: while the current descriptor has ONSTACK set, every sigaltstack call
\* with a non-null ss fails and leaves the descriptor as it was.
C9_OnStackImmutable ==
    IsSetOnStack
    => /\ ~last.ret.ok
       /\ sigaltstack = last.pre_stack

\* a descriptor that passes the validation, refused because of ONSTACK
C9_Witness ==
    /\ IsSetOnStack
    /\ last.ss \in Cells
    /\ last.ret = Err(EPERM)
    /\ last.pre_mem[last.ss].flags = {}
    /\ last.pre_mem[last.ss] # last.pre_stack

\* C10 as stated: with ONSTACK set on the current descriptor and a readable
\* ss, the call is rejected with EPERM whatever the new descriptor holds.
C10_AsStated ==
    ( IsSetOnStack /\ last.ss \in Cells )
    => last.ret = Err(EPERM)

\* C10, amended: with ONSTACK set on the current descriptor, a readable ss
\* and an old_ss that is null or a writable location other than ss, the
\* call is rejected with ENOMEM when the new descriptor has bit 0x2 set and
\* a size below 2048, else with EINVAL when its flags have a bit outside
\* 0x8000002, and with EPERM in every other case.
C10_OnStackRejected ==
    ( /\ IsSetOnStack /\ last.ss \in Cells
      /\ (last.old_ss = NULL
            \/ (last.old_ss \in Cells /\ last.old_ss # last.ss)) )
    => LET new == last.pre_mem[last.ss]
       IN  last.ret =
             IF 1 \in new.flags /\ new.size < 2048 THEN Err(ENOMEM)
             ELSE IF new.flags \ {1, 27} # {} THEN Err(EINVAL)
             ELSE Err(EPERM)

\* a new descriptor with an unknown flag bit, refused with EINVAL although
\* ONSTACK is set
C10_Witness ==
    /\ IsSetOnStack /\ last.ss \in Cells
    /\ last.old_ss = NULL
    /\ last.pre_mem[last.ss].flags = {2}
    /\ last.ret = Err(EINVAL)

\* a sigaltstack call that names a readable new descriptor
IsSetStack == last.op = "sigaltstack" /\ last.ss \in Cells

\* old_ss is null or a writable location other than the one ss names
OldSsApart ==
    last.old_ss = NULL \/ (last.old_ss \in Cells /\ last.old_ss # last.ss)

\* the three parts of C11 about the descriptor `new` the caller passes
GuardSizeRule(new) ==
    /\ ( 1 \in new.flags /\ new.size < 2048 )
       => ( last.ret = Err(ENOMEM) /\ sigaltstack = last.pre_stack )
    /\ ( new.flags = {1} /\ new.size >= 2048
         /\ 0 \notin last.pre_stack.flags )
       => ( last.ret = Ok(0) /\ sigaltstack = new )
    /\ last.ret = Err(ENOMEM) => 1 \in new.flags

\* C11 as stated: a new descriptor with bit 0x2 set and a size below 2048
\* fails with ENOMEM and leaves the descriptor unchanged; with bit 0x2 only,
\* a size of at least 2048 and no ONSTACK on the current descriptor the call
\* returns 0 and stores it; ENOMEM is returned only when bit 0x2 is set.
C11_AsStated ==
    IsSetStack => GuardSizeRule(last.pre_mem[last.ss])

\* C11, amended: the same, for calls whose old_ss is null or a writable
\* location other than the one ss names.
C11_GuardSize ==
    ( IsSetStack /\ OldSsApart ) => GuardSizeRule(last.pre_mem[last.ss])

\* a guarded descriptor of the boundary size 2048 replaced the default one
C11_Witness ==
    /\ IsSetStack /\ OldSsApart
    /\ last.pre_mem[last.ss].flags = {1}
    /\ last.pre_mem[last.ss].size = 2048
    /\ last.ret = Ok(0)
    /\ sigaltstack = last.pre_mem[last.ss]
    /\ sigaltstack # last.pre_stack

\* the new descriptor passes the size check of line 182
PassesSizeCheck(new) == ~(1 \in new.flags /\ new.size < 2048)

\* C12: a new descriptor that passes the size check is refused with EINVAL,
\* the descriptor left unchanged, exactly when its flags have a bit outside
\* AUTODISARM | DISABLE; flags inside that set, AUTODISARM alone included,
\* pass the flag check.
C12_AllowedFlags ==
    ( IsSetStack /\ OldSsApart /\ PassesSizeCheck(last.pre_mem[last.ss]) )
    => LET new == last.pre_mem[last.ss]
       IN  IF new.flags \subseteq (AUTODISARM \cup DISABLE)
           THEN last.ret # Err(EINVAL)
           ELSE last.ret = Err(EINVAL) /\ sigaltstack = last.pre_stack

----------------------------------------------------------------------------
(* rt_sigreturn: claims *)

\* a call that found its frame on a mapped cell
IsReturn ==
    /\ last.op = "rt_sigreturn"
    /\ last.addr \in Cells

\* the restored result register, read as a signed machine word
RestoredRax == last.pre_mem[last.addr].tf.rax

\* C13: rt_sigreturn leaves the trap frame equal to the one stored in the
\* SignalFrame at sp - 8; when the restored result register r is not
\* negative the result is success r, and when it is -e for the numeric code
\* e of an error kind the result is failure with that kind (-ESRCH gives
\* ESRCH).
C13_RestoreAndDecode ==
    IsReturn
    => /\ tf = last.pre_mem[last.addr].tf
       /\ ( IsPositive(RestoredRax) \/ IsZero(RestoredRax) )
          => ( ~last.panic /\ last.ret.ok /\ last.ret.val = RestoredRax )
       /\ \A e \in SysErrorCodes :
             RestoredRax = Word(0, 0 - e)
             => ( ~last.panic /\ ~last.ret.ok /\ last.ret.val = e )

\* a frame with -ESRCH in the result register, restored over a trap frame
\* that differs from it in both registers
C13_Witness ==
    /\ IsReturn
    /\ RestoredRax = Word(0, 0 - ESRCH)
    /\ ~last.ret.ok /\ last.ret.val = ESRCH
    /\ last.pre_tf.sp # tf.sp
    /\ last.pre_tf.rax # tf.rax

\* C19: for every value of the restored result register rt_sigreturn
\* completes with a success value or an error kind; it never panics.
C19_NeverPanics ==
    IsReturn => ~last.panic

----------------------------------------------------------------------------
(* rt_sigaction, rt_sigprocmask, sigaltstack: old values and failing calls *)

\* C14: a call of rt_sigaction, rt_sigprocmask or sigaltstack that writes
\* its old-value output leaves there the state as it was before the call:
\* the entry of signum, the caller's mask, the descriptor; never the value
\* the same call installs.
C14_OldBeforeNew ==
    /\ ( last.op = "rt_sigaction" /\ last.oldact \in last.writes )
       => uact[last.oldact] = last.pre_disp[last.signum]
    /\ ( last.op = "rt_sigprocmask" /\ last.oldset \in last.writes )
       => uset[last.oldset] = last.pre_mask[last.tid]
    /\ ( last.op = "sigaltstack" /\ last.old_ss \in last.writes )
       => uss[last.old_ss] = last.pre_stack

\* a descriptor replaced by one that differs from it in the size alone,
\* and reported through old_ss
C14_Witness ==
    /\ last.op = "sigaltstack" /\ last.ret = Ok(0)
    /\ last.ss \in Cells /\ last.old_ss \in Cells
    /\ last.ss # last.old_ss
    /\ sigaltstack = last.pre_mem[last.ss]
    /\ sigaltstack.size # last.pre_stack.size
    /\ sigaltstack.flags = last.pre_stack.flags
    /\ sigaltstack.sp = last.pre_stack.sp
    /\ uss[last.old_ss] = last.pre_stack

\* the call is one of the three, and it failed
IsFailedConfig ==
    /\ last.op \in {"rt_sigaction", "rt_sigprocmask", "sigaltstack"}
    /\ ~last.ret.ok

\* C15: a failing call of rt_sigaction, rt_sigprocmask or sigaltstack has
\* written nothing: user memory, the old-value output location included,
\* is as it was before the call.
C15_FailureWritesNothing ==
    IsFailedConfig
    => /\ last.writes = {}
       /\ last.op = "rt_sigaction" => uact = last.pre_mem
       /\ last.op = "rt_sigprocmask" => uset = last.pre_mem
       /\ last.op = "sigaltstack" => uss = last.pre_mem

\* C18: a failing call of rt_sigaction, rt_sigprocmask or sigaltstack
\* leaves the disposition table, every thread's signal mask and the
\* alt-stack descriptor as they were before the call.
C18_FailureKeepsKernelState ==
    IsFailedConfig
    => /\ dispositions = [s \in TableSignals |->
                              IF last.op = "rt_sigaction"
                              THEN last.pre_disp[s] ELSE DefaultAction]
       /\ sig_mask = IF last.op = "rt_sigprocmask"
                     THEN last.pre_mask
                     ELSE [t \in Threads |-> {}]
       /\ sigaltstack = IF last.op = "sigaltstack"
                        THEN last.pre_stack ELSE DefaultStack

\* a descriptor refused for an unknown flag bit after the old one was
\* copied out, the current descriptor being one installed earlier
C18_Witness ==
    /\ last.op = "sigaltstack"
    /\ last.ret = Err(EINVAL)
    /\ last.ss \in Cells /\ last.old_ss \in Cells
    /\ last.pre_stack # DefaultStack
    /\ last.pre_mem[last.ss] # last.pre_stack
    /\ sigaltstack = last.pre_stack

----------------------------------------------------------------------------
(* sigaltstack: the descriptors it stores *)

\* the descriptor passes the checks of lines 182 and 186 and has no ONSTACK
Validated(stack) ==
    /\ stack.flags \subseteq {1, 27}
    /\ 0 \notin stack.flags
    /\ 1 \in stack.flags => stack.size >= 2048

\* C20 as stated: in a run of sigaltstack calls alone, in every reachable
\* state the descriptor's flags have no bit outside the accepted mask, in
\* particular not ONSTACK, and with bit 0x2 set its size is at least 2048;
\* no call returns EPERM.
C20_AsStated ==
    /\ Validated(sigaltstack)
    /\ last.op = "sigaltstack" => last.ret # Err(EPERM)

\* C20, amended: in a run of sigaltstack calls alone the descriptor never
\* has ONSTACK set and no call returns EPERM, and the descriptor is either
\* the one the process started with or one that passed the validation:
\* flags within 0x8000002 and, with bit 0x2 set, a size of at least 2048.
C20_StoredValidated ==
    /\ 0 \notin sigaltstack.flags
    /\ sigaltstack = DefaultStack \/ Validated(sigaltstack)
    /\ last.op = "sigaltstack" => last.ret # Err(EPERM)
    /\ ( last.op = "sigaltstack" /\ sigaltstack # last.pre_stack )
       => Validated(sigaltstack)

\* a descriptor with bit 0x2 stored over an earlier one, while user memory
\* holds a descriptor with ONSTACK
C20_Witness ==
    /\ last.op = "sigaltstack" /\ last.ret = Ok(0)
    /\ last.pre_stack # DefaultStack
    /\ sigaltstack # last.pre_stack
    /\ 1 \in sigaltstack.flags
    /\ \E p \in Cells : 0 \in uss[p].flags

----------------------------------------------------------------------------
(* concurrent calls *)

\* thread t has completed a successful call of `op` that stored a new value
Stored(t, op) ==
    /\ running[t].pc = "done"
    /\ running[t].op = op
    /\ running[t].ret.ok
    /\ running[t].replaced # {}

\* C16: when threads call rt_sigaction(signum, A_i, &old_i) on the same
\* signum concurrently, under every interleaving the entry a call reports
\* in old_i is the entry its own store replaced, and between a call's
\* copy-out and its store no other thread is inside the table.
C16_SigactionAtomic ==
    /\ \A t \in Threads :
          Stored(t, "rt_sigaction")
          => running[t].replaced = {running[t].mem[OldPtr]}
    /\ \A t \in Threads :
          ( running[t].pc = "install" /\ running[t].op = "rt_sigaction" )
          => /\ lock = t
             /\ running[t].mem[OldPtr] = dispositions[SIGINT]

\* a call that replaced the action another thread installed, while that
\* thread has already called again and waits for the lock
C16_Witness ==
    \E t \in Threads : \E u \in Threads \ {t} :
        /\ Stored(t, "rt_sigaction")
        /\ running[t].mem[OldPtr] # DefaultAction
        /\ running[t].mem[NewPtr] # running[t].mem[OldPtr]
        /\ running[u].pc = "copyout"

\* C17: when threads call sigaltstack(new_i, &old_i) concurrently, under
\* every interleaving the descriptor a successful call reports in old_i is
\* the descriptor its own store replaced.
C17_SigaltstackAtomic ==
    \A t \in Threads :
        Stored(t, "sigaltstack")
        => running[t].replaced = {running[t].mem[OldPtr]}

====
